---- MODULE Spec2Model ----
(***************************************************************************)
(* awsipranges: the AWS IP prefix record (AWSIPPrefix), the record         *)
(* combiner (combine_prefixes) and the prefix collection (AWSIPPrefixes):  *)
(* construction, longest-prefix-match lookup and filtering.                *)
(*                                                                         *)
(* IP addresses are modelled as naturals of a small width (Bits4 bits for  *)
(* IPv4 instead of 32, Bits6 bits for IPv6 instead of 128); a network is   *)
(* the record [version, network_address, prefixlen] of ipaddress.          *)
(* Python strings are TLA+ strings, compared through StrOrder.             *)
(* A Python call ends either by returning a value or by raising; both are  *)
(* values here: Return(v) and Raise(exception).                            *)
(***************************************************************************)
EXTENDS Integers, Sequences, FiniteSets, TLC

Bits4 == 2

Bits6 == 1

MaxFeed == 3

MaxRecords == 3

NumReaders == 2

\* ------------------------------------------------------------------------
\* Python values
\* ------------------------------------------------------------------------

PyNone == [type |-> "NoneType"]

PyStr(s) == [type |-> "str", value |-> s]

PyInt(n) == [type |-> "int", value |-> n]

\* A tuple or list (a sequence): of strings as passed for `services`, of
\* records as returned by get_prefix_and_supernets.
PyTuple(t) == [type |-> "tuple", value |-> t]

\* Any other iterable handed to filter(); only its set of items is read.
PyIter(S) == [type |-> "iterable", value |-> S]

Return(v) == [status |-> "ok", value |-> v]

Raise(e) == [status |-> e]

\* Every string the model uses, in Python's (code point) order.
StrOrder ==
    << "AMAZON", "EC2", "GLOBAL", "S3", "ap-south-1", "us-east-1",
       "us-east-1-bos-1" >>

StrRank(s) == CHOOSE i \in 1..Len(StrOrder) : StrOrder[i] = s

\* str.__lt__
StrLt(a, b) == StrRank(a) < StrRank(b)

\* tuple.__lt__ on tuples of strings: lexicographic, a proper prefix is less.
tuple_lt(a, b) ==
    \E i \in 1..Len(b) :
        /\ Len(a) >= i - 1
        /\ \A j \in 1..(i - 1) : a[j] = b[j]
        /\ (Len(a) = i - 1 \/ StrLt(a[i], b[i]))

\* sorted() on an iterable of strings given as a sequence (stable insertion).
RECURSIVE sorted(_)
sorted(t) ==
    IF t = <<>> THEN <<>>
    ELSE LET s == sorted(SubSeq(t, 1, Len(t) - 1))
             x == t[Len(t)]
             k == Cardinality({i \in 1..Len(s) : ~ StrLt(x, s[i])})
         IN  SubSeq(s, 1, k) \o <<x>> \o SubSeq(s, k + 1, Len(s))

\* set() of the items of a sequence.
Range(t) == {t[i] : i \in 1..Len(t)}

\* sorted(set): the ascending sequence of a set of strings.
RECURSIVE sorted_set(_)
sorted_set(S) ==
    IF S = {} THEN <<>>
    ELSE LET m == CHOOSE x \in S : \A y \in S : ~ StrLt(y, x)
         IN  <<m>> \o sorted_set(S \ {m})

\* ------------------------------------------------------------------------
\* ipaddress networks
\* ------------------------------------------------------------------------

\* max_prefixlen of an IP version.
max_prefixlen(version) == IF version = 4 THEN Bits4 ELSE Bits6

\* The address with every bit beyond the first `prefixlen` cleared.
Mask(version, address, prefixlen) ==
    LET host == 2 ^ (max_prefixlen(version) - prefixlen)
    IN  (address \div host) * host

\* The network whose first `prefixlen` bits are the number `bits`.
Net(version, bits, prefixlen) ==
    [version |-> version,
     network_address |-> bits * 2 ^ (max_prefixlen(version) - prefixlen),
     prefixlen |-> prefixlen]

\* __lt__ by network address alone.
network_lt_by_address(a, b) == a.network_address < b.network_address

\* _BaseNetwork.__lt__ between two networks of one version: by network
\* address, then by netmask (that is, by prefix length).
network_lt(a, b) ==
    IF a.network_address # b.network_address
    THEN a.network_address < b.network_address
    ELSE a.prefixlen < b.prefixlen

\* _BaseNetwork.subnet_of: a is contained in b.
subnet_of(a, b) ==
    /\ a.version = b.version
    /\ b.prefixlen <= a.prefixlen
    /\ Mask(a.version, a.network_address, b.prefixlen) = b.network_address

\* _BaseNetwork.supernet(new_prefix=...), for new_prefix <= prefixlen.
supernet(subnet, new_prefix) ==
    [version |-> subnet.version,
     network_address |-> Mask(subnet.version, subnet.network_address, new_prefix),
     prefixlen |-> new_prefix]

\* ------------------------------------------------------------------------
\* AWSIPPrefix
\* ------------------------------------------------------------------------

\* AWSIPPrefix.__init__ with `prefix` a network value.
AWSIPPrefix(prefix, region, network_border_group, services) ==
    [prefix |-> prefix,
     region |-> region,
     network_border_group |-> network_border_group,
     services |-> IF services.type = "str" THEN <<services.value>>
                  ELSE sorted(services.value)]

\* __lt__ that stops at the network border group, leaving the services out.
AWSIPPrefix_lt_without_services(self, other) ==
    IF self.prefix.version # other.prefix.version
    THEN self.prefix.version < other.prefix.version
    ELSE IF self.prefix.network_address # other.prefix.network_address
    THEN self.prefix.network_address < other.prefix.network_address
    ELSE IF self.prefix.prefixlen # other.prefix.prefixlen
    THEN self.prefix.prefixlen < other.prefix.prefixlen
    ELSE IF self.region # other.region
    THEN StrLt(self.region, other.region)
    ELSE IF self.network_border_group # other.network_border_group
    THEN StrLt(self.network_border_group, other.network_border_group)
    ELSE FALSE

\* AWSIPPrefix.__lt__ against another AWSIPPrefix.
AWSIPPrefix_lt(self, other) ==
    IF self.prefix.version # other.prefix.version
    THEN self.prefix.version < other.prefix.version
    ELSE IF self.prefix.network_address # other.prefix.network_address
    THEN self.prefix.network_address < other.prefix.network_address
    ELSE IF self.prefix.prefixlen # other.prefix.prefixlen
    THEN self.prefix.prefixlen < other.prefix.prefixlen
    ELSE IF self.region # other.region
    THEN StrLt(self.region, other.region)
    ELSE IF self.network_border_group # other.network_border_group
    THEN StrLt(self.network_border_group, other.network_border_group)
    ELSE IF self.services # other.services
    THEN tuple_lt(self.services, other.services)
    ELSE FALSE

\* AWSIPPrefix.__lt__ against an IPv4Network / IPv6Network.
AWSIPPrefix_lt_network(self, other) ==
    IF self.prefix # other THEN network_lt(self.prefix, other) ELSE FALSE

\* aws_ip_prefix: one JSON record of the feed, whose `service` is a string.
aws_ip_prefix(json_data) ==
    AWSIPPrefix(json_data.prefix, json_data.region,
                json_data.network_border_group, PyStr(json_data.service))

\* combine_prefixes whose check forgets the network border group.
combine_prefixes_ignoring_border_group(prefixes) ==
    LET first == prefixes[1]
        rest == 2..Len(prefixes)
    IN  IF \E i \in rest : prefixes[i].prefix.version # first.prefix.version
        THEN Raise("TypeError")
        ELSE IF ~ \A i \in rest :
                    <<prefixes[i].prefix, prefixes[i].region>>
                    = <<first.prefix, first.region>>
        THEN Raise("ValueError")
        ELSE Return(AWSIPPrefix(
                 first.prefix, first.region, first.network_border_group,
                 PyTuple(sorted_set(UNION {Range(prefixes[i].services) :
                                              i \in 1..Len(prefixes)}))))

\* combine_prefixes, for a list of two or more records.
combine_prefixes(prefixes) ==
    LET first == prefixes[1]
        rest == 2..Len(prefixes)
    IN  IF \E i \in rest : prefixes[i].prefix.version # first.prefix.version
        THEN Raise("TypeError")
        ELSE IF ~ \A i \in rest :
                    <<prefixes[i].prefix, prefixes[i].region,
                      prefixes[i].network_border_group>>
                    = <<first.prefix, first.region, first.network_border_group>>
        THEN Raise("ValueError")
        ELSE Return(AWSIPPrefix(
                 first.prefix, first.region, first.network_border_group,
                 PyTuple(sorted_set(UNION {Range(prefixes[i].services) :
                                              i \in 1..Len(prefixes)}))))

\* ------------------------------------------------------------------------
\* AWSIPPrefixes: construction
\* ------------------------------------------------------------------------

\* No sort at all: the records stay in insertion order.
list_sort_skipped(l) == l

\* list.sort() of AWSIPPrefix records (stable insertion with __lt__).
RECURSIVE list_sort(_)
list_sort(l) ==
    IF l = <<>> THEN <<>>
    ELSE LET s == list_sort(SubSeq(l, 1, Len(l) - 1))
             x == l[Len(l)]
             k == Cardinality({i \in 1..Len(s) : ~ AWSIPPrefix_lt(x, s[i])})
         IN  SubSeq(s, 1, k) \o <<x>> \o SubSeq(s, k + 1, Len(s))

\* The keys of collect_duplicates, in insertion order.
RECURSIVE duplicate_keys(_)
duplicate_keys(prefixes) ==
    IF prefixes = <<>> THEN <<>>
    ELSE LET keys == duplicate_keys(SubSeq(prefixes, 1, Len(prefixes) - 1))
             key == prefixes[Len(prefixes)].prefix
         IN  IF key \in Range(keys) THEN keys ELSE Append(keys, key)

\* collect_duplicates[key]: the records of one network, in input order.
collect_duplicates(prefixes, key) ==
    SelectSeq(prefixes, LAMBDA p : p.prefix = key)

\* _process_prefixes keeping the first record of each network, without
\* combining (and so without the combiner's check).
_process_prefixes_keep_first(prefixes) ==
    LET keys == duplicate_keys(prefixes)
    IN  Return(list_sort([i \in 1..Len(keys) |->
                             collect_duplicates(prefixes, keys[i])[1]]))

\* AWSIPPrefixes._process_prefixes
_process_prefixes(prefixes) ==
    LET keys == duplicate_keys(prefixes)
        group(i) == collect_duplicates(prefixes, keys[i])
        combined == [i \in 1..Len(keys) |->
                        IF Len(group(i)) = 1 THEN Return(group(i)[1])
                        ELSE combine_prefixes(group(i))]
    IN  IF \E i \in 1..Len(keys) : combined[i].status # "ok"
        THEN Raise(combined[CHOOSE i \in 1..Len(keys) :
                        /\ combined[i].status # "ok"
                        /\ \A j \in 1..(i - 1) : combined[j].status = "ok"].status)
        ELSE Return(list_sort([i \in 1..Len(keys) |-> combined[i].value]))

\* AWSIPPrefixes.__init__
AWSIPPrefixes(sync_token, create_date, ipv4_prefixes, ipv6_prefixes, md5) ==
    LET v4 == _process_prefixes(ipv4_prefixes)
        v6 == _process_prefixes(ipv6_prefixes)
    IN  IF v4.status # "ok" THEN Raise(v4.status)
        ELSE IF v6.status # "ok" THEN Raise(v6.status)
        ELSE Return([sync_token |-> sync_token,
                     create_date |-> create_date,
                     ipv4_prefixes |-> v4.value,
                     ipv6_prefixes |-> v6.value,
                     md5 |-> md5,
                     _regions |-> PyNone,
                     _network_border_groups |-> PyNone,
                     _services |-> PyNone])

\* ------------------------------------------------------------------------
\* AWSIPPrefixes: lookup
\* ------------------------------------------------------------------------

\* An item to look up, as ip_network() reads it: the text of an address
\* (prefixlen = max_prefixlen), of an interface or of a network is
\* "ip/prefixlen"; host bits may be set.
IPItem(version, ip, prefixlen) ==
    [type |-> "ip", version |-> version, ip |-> ip, prefixlen |-> prefixlen]

\* ip_network(item, strict=False): host bits are masked off.
ip_network(item) ==
    [version |-> item.version,
     network_address |-> Mask(item.version, item.ip, item.prefixlen),
     prefixlen |-> item.prefixlen]

\* The item's network read as an IPv4 network whatever the item's version.
item_network_as_ipv4(item) ==
    LET network == IF item.type = "AWSIPPrefix" THEN item.value.prefix
                   ELSE ip_network(item)
    IN  [network EXCEPT !.version = 4]

\* The network a lookup searches for: item.prefix for a record, else
\* ip_network(item, strict=False).
item_network(item) ==
    IF item.type = "AWSIPPrefix" THEN item.value.prefix ELSE ip_network(item)

\* supernets starting above the subnet: range(subnet.prefixlen - 1, 0, -1).
supernets_proper(subnet) ==
    [i \in 1..(subnet.prefixlen - 1) |-> supernet(subnet, subnet.prefixlen - i)]

\* supernets with the walk reversed: range(1, subnet.prefixlen + 1).
supernets_ascending(subnet) ==
    [i \in 1..subnet.prefixlen |-> supernet(subnet, i)]

\* supernets(subnet): range(subnet.prefixlen, 0, -1), most specific first.
supernets(subnet) ==
    [i \in 1..subnet.prefixlen |-> supernet(subnet, subnet.prefixlen + 1 - i)]

\* bisect.bisect_left(a, x) with x a network; 0-based positions lo, hi.
RECURSIVE bisect_left_loop(_, _, _, _)
bisect_left_loop(a, x, lo, hi) ==
    IF lo < hi
    THEN LET mid == (lo + hi) \div 2
         IN  IF AWSIPPrefix_lt_network(a[mid + 1], x)
             THEN bisect_left_loop(a, x, mid + 1, hi)
             ELSE bisect_left_loop(a, x, lo, mid)
    ELSE lo

bisect_left(a, x) == bisect_left_loop(a, x, 0, Len(a))

\* AWSIPPrefixes._get_prefix: the stored record of that network, or None.
_get_prefix(self, prefix) ==
    LET prefixes_collection ==
            IF prefix.version = 4 THEN self.ipv4_prefixes
            ELSE self.ipv6_prefixes
        index == bisect_left(prefixes_collection, prefix)
    IN  IF index # Len(prefixes_collection)
           /\ prefixes_collection[index + 1].prefix = prefix
        THEN prefixes_collection[index + 1]
        ELSE PyNone

\* AWSIPPrefixes.__getitem__
__getitem__(self, item) ==
    LET chain == supernets(item_network(item))
        hits == {i \in 1..Len(chain) : _get_prefix(self, chain[i]) # PyNone}
    IN  IF hits = {} THEN Raise("KeyError")
        ELSE Return(_get_prefix(self,
                 chain[CHOOSE i \in hits : \A j \in hits : i <= j]))

\* __contains__ answering for the exact network only.
__contains___exact(self, item) ==
    Return(_get_prefix(self, item_network(item)) # PyNone)

\* AWSIPPrefixes.__contains__: self[item], KeyError caught.
__contains__(self, item) ==
    LET outcome == __getitem__(self, item)
    IN  IF outcome.status = "KeyError" THEN Return(FALSE)
        ELSE IF outcome.status = "ok" THEN Return(TRUE)
        ELSE outcome

\* AWSIPPrefixes.get: self[key], KeyError caught.
get(self, key, default) ==
    LET outcome == __getitem__(self, key)
    IN  IF outcome.status = "KeyError" THEN Return(default) ELSE outcome

\* get_prefix_and_supernets without its prefixes.sort().
get_prefix_and_supernets_unsorted(self, key, default) ==
    LET chain == supernets(item_network(key))
        found == [i \in 1..Len(chain) |-> _get_prefix(self, chain[i])]
        prefixes == SelectSeq(found, LAMBDA p : p # PyNone)
    IN  IF prefixes # <<>> THEN Return(PyTuple(prefixes))
        ELSE Return(default)

\* AWSIPPrefixes.get_prefix_and_supernets
get_prefix_and_supernets(self, key, default) ==
    LET chain == supernets(item_network(key))
        found == [i \in 1..Len(chain) |-> _get_prefix(self, chain[i])]
        prefixes == SelectSeq(found, LAMBDA p : p # PyNone)
    IN  IF prefixes # <<>> THEN Return(PyTuple(list_sort(prefixes)))
        ELSE Return(default)

\* ------------------------------------------------------------------------
\* AWSIPPrefixes: derived sets and filter
\* ------------------------------------------------------------------------

PyFrozenSet(S) == [type |-> "frozenset", value |-> S]

\* __iter__ chaining the sequences the other way round.
__iter___ipv6_first(self) == self.ipv6_prefixes \o self.ipv4_prefixes

\* AWSIPPrefixes.__iter__: the IPv4 records, then the IPv6 records.
__iter__(self) == self.ipv4_prefixes \o self.ipv6_prefixes

\* AWSIPPrefixes.__len__
__len__(self) == Len(self.ipv4_prefixes) + Len(self.ipv6_prefixes)

\* The regions property gathering the IPv4 records only.
regions_of_ipv4_only(self) ==
    IF self._regions = PyNone
    THEN [self EXCEPT !._regions =
             PyFrozenSet({p.region : p \in Range(self.ipv4_prefixes)})]
    ELSE self

\* The regions property: the instance after the read (its cache filled).
regions(self) ==
    IF self._regions = PyNone
    THEN [self EXCEPT !._regions =
             PyFrozenSet({p.region : p \in Range(__iter__(self))})]
    ELSE self

\* The network_border_groups property: the instance after the read.
network_border_groups(self) ==
    IF self._network_border_groups = PyNone
    THEN [self EXCEPT !._network_border_groups =
             PyFrozenSet({p.network_border_group : p \in Range(__iter__(self))})]
    ELSE self

\* The services property: the instance after the read.
services(self) ==
    IF self._services = PyNone
    THEN [self EXCEPT !._services =
             PyFrozenSet(UNION {Range(p.services) : p \in Range(__iter__(self))})]
    ELSE self

\* normalize_to_set
normalize_to_set(value) ==
    IF value = PyNone THEN {}
    ELSE IF value.type \in {"str", "int"} THEN {value.value}
    ELSE value.value

\* validate_values that never raises.
validate_values_skipped(values, valid_values) == TRUE

\* validate_values accepting the values as soon as one of them is valid.
validate_values_any(values, valid_values) ==
    values = {} \/ values \cap valid_values # {}

\* validate_values: TRUE when it returns, FALSE when it raises ValueError.
validate_values(values, valid_values) == values \subseteq valid_values

\* `normalize_to_set(value)` alone, without `or default`.
or_default_dropped(values, default) == values

\* `normalize_to_set(value) or default`
or_default(values, default) == IF values # {} THEN values ELSE default

\* The generator expressions with issubset in place of intersection.
filter_prefixes_issubset(prefixes, regions_, network_border_groups_, services_) ==
    SelectSeq(prefixes, LAMBDA prefix :
        /\ prefix.region \in regions_
        /\ prefix.network_border_group \in network_border_groups_
        /\ Range(prefix.services) \subseteq services_)

\* The generator expressions of filter(): the records of one version kept.
filter_prefixes(prefixes, regions_, network_border_groups_, services_) ==
    SelectSeq(prefixes, LAMBDA prefix :
        /\ prefix.region \in regions_
        /\ prefix.network_border_group \in network_border_groups_
        /\ Range(prefix.services) \cap services_ # {})

\* filter that also narrows the sequences of the instance it is called on.
filter_in_place(self, regions_, network_border_groups_, services_, versions_) ==
    LET self3 == services(network_border_groups(regions(self)))
        rs == or_default(normalize_to_set(regions_), self3._regions.value)
        ns == or_default(normalize_to_set(network_border_groups_),
                         self3._network_border_groups.value)
        ss == or_default(normalize_to_set(services_), self3._services.value)
        vs == or_default(normalize_to_set(versions_), {4, 6})
        kept4 == IF 4 \notin vs THEN <<>>
                 ELSE filter_prefixes(self3.ipv4_prefixes, rs, ns, ss)
        kept6 == IF 6 \notin vs THEN <<>>
                 ELSE filter_prefixes(self3.ipv6_prefixes, rs, ns, ss)
    IN  IF ~ /\ validate_values(rs, self3._regions.value)
             /\ validate_values(ns, self3._network_border_groups.value)
             /\ validate_values(ss, self3._services.value)
             /\ validate_values(vs, {4, 6})
        THEN [outcome |-> Raise("ValueError"), self |-> self3]
        ELSE [outcome |-> AWSIPPrefixes(self3.sync_token, self3.create_date,
                                        kept4, kept6, PyNone),
              self |-> [self3 EXCEPT !.ipv4_prefixes = kept4,
                                     !.ipv6_prefixes = kept6]]

\* AWSIPPrefixes.filter: [outcome |-> what the call returns or raises,
\* self |-> the instance after the call].
filter(self, regions_, network_border_groups_, services_, versions_) ==
    LET self1 == regions(self)
        rs == or_default(normalize_to_set(regions_), self1._regions.value)
        self2 == network_border_groups(self1)
        ns == or_default(normalize_to_set(network_border_groups_),
                         self2._network_border_groups.value)
        self3 == services(self2)
        ss == or_default(normalize_to_set(services_), self3._services.value)
        vs == or_default(normalize_to_set(versions_), {4, 6})
    IN  IF ~ validate_values(rs, self1._regions.value)
        THEN [outcome |-> Raise("ValueError"), self |-> self1]
        ELSE IF ~ validate_values(ns, self2._network_border_groups.value)
        THEN [outcome |-> Raise("ValueError"), self |-> self2]
        ELSE IF ~ validate_values(ss, self3._services.value)
        THEN [outcome |-> Raise("ValueError"), self |-> self3]
        ELSE IF ~ validate_values(vs, {4, 6})
        THEN [outcome |-> Raise("ValueError"), self |-> self3]
        ELSE [outcome |->
                 AWSIPPrefixes(
                     self3.sync_token, self3.create_date,
                     IF 4 \notin vs THEN <<>>
                     ELSE filter_prefixes(self3.ipv4_prefixes, rs, ns, ss),
                     IF 6 \notin vs THEN <<>>
                     ELSE filter_prefixes(self3.ipv6_prefixes, rs, ns, ss),
                     PyNone),
              self |-> self3]

\* ------------------------------------------------------------------------
\* The program: a feed is loaded record by record, the collection is built
\* from it (get_ranges), and the application queries the collection.
\* ------------------------------------------------------------------------

VARIABLES
    ipv4_feed,   \* json_data["prefixes"] read so far
    ipv6_feed,   \* json_data["ipv6_prefixes"] read so far
    ranges,      \* the AWSIPPrefixes instance, PyNone before construction
    last,        \* the last call: [op, args, outcome]
    records,     \* the AWSIPPrefix records the application built by hand
    readers      \* the readers of ranges: each one's call in progress

vars == <<ipv4_feed, ipv6_feed, ranges, last, records, readers>>

\* One JSON record of the published document.
json_record(prefix, region, network_border_group, service) ==
    [prefix |-> prefix, region |-> region,
     network_border_group |-> network_border_group, service |-> service]

\* The JSON records a feed is drawn from: nested IPv4 networks 0/0, 0/1 and
\* 00/2 and the sibling 1/1, networks listed once per service, networks
\* listed with two border groups or two regions, and two nested IPv6
\* networks.
FeedRecords ==
    { json_record(Net(4, 0, 0), "GLOBAL", "GLOBAL", "AMAZON"),
      json_record(Net(4, 0, 0), "GLOBAL", "GLOBAL", "EC2"),
      json_record(Net(4, 0, 1), "us-east-1", "us-east-1", "AMAZON"),
      json_record(Net(4, 0, 1), "us-east-1", "us-east-1", "EC2"),
      json_record(Net(4, 0, 1), "us-east-1", "us-east-1-bos-1", "EC2"),
      json_record(Net(4, 0, 2), "us-east-1", "us-east-1", "S3"),
      json_record(Net(4, 1, 1), "ap-south-1", "ap-south-1", "EC2"),
      json_record(Net(4, 1, 1), "GLOBAL", "ap-south-1", "AMAZON"),
      json_record(Net(6, 0, 0), "GLOBAL", "GLOBAL", "AMAZON"),
      json_record(Net(6, 1, 1), "us-east-1", "us-east-1", "S3") }

\* The items looked up: every address, interface and network of both
\* versions.
IPItems ==
    {IPItem(4, ip, l) : <<ip, l>> \in (0..(2 ^ Bits4 - 1)) \X (0..Bits4)}
    \cup {IPItem(6, ip, l) : <<ip, l>> \in (0..(2 ^ Bits6 - 1)) \X (0..Bits6)}

\* The AWSIPPrefix records looked up.
PrefixItems ==
    {[type |-> "AWSIPPrefix", value |-> aws_ip_prefix(r)] : r \in FeedRecords}

\* The arguments filter() is called with, as tuples to draw from.
RegionArgs ==
    << PyNone, PyStr("us-east-1"), PyIter({"GLOBAL", "ap-south-1"}), PyIter({}) >>

NetworkBorderGroupArgs == << PyNone, PyStr("us-east-1") >>

ServiceArgs == << PyNone, PyStr("AMAZON"), PyIter({"EC2", "S3"}) >>

VersionArgs == << PyNone, PyInt(4), PyInt(6), PyInt(5) >>

\* The default= handed to get().
Default == PyStr("default")

NoCall == [op |-> "none"]

\* The readers of the collection.
Readers == 1..NumReaders

NoOutcome == [status |-> "none"]

\* A reader between two calls.
Idle ==
    [pc |-> "idle", call |-> 0, field |-> 0, regions |-> {},
     network_border_groups |-> {}, services |-> {}, outcome |-> NoOutcome]

Init ==
    /\ ipv4_feed = <<>>
    /\ ipv6_feed = <<>>
    /\ ranges = PyNone
    /\ last = NoCall
    /\ records = <<>>
    /\ readers = [i \in Readers |-> Idle]

\* The loader reads one more record of the document.
LoadRecord(r) ==
    /\ ranges = PyNone
    /\ last = NoCall
    /\ Len(ipv4_feed) + Len(ipv6_feed) < MaxFeed
    /\ IF r.prefix.version = 4
       THEN ipv4_feed' = Append(ipv4_feed, r) /\ UNCHANGED ipv6_feed
       ELSE ipv6_feed' = Append(ipv6_feed, r) /\ UNCHANGED ipv4_feed
    /\ UNCHANGED <<ranges, last, records, readers>>

\* get_ranges: AWSIPPrefixes(...) over the records of the document; the
\* generators handed to the constructor are consumed by it.
Construct ==
    /\ ranges = PyNone
    /\ last = NoCall
    /\ LET ipv4_prefixes == [i \in 1..Len(ipv4_feed) |-> aws_ip_prefix(ipv4_feed[i])]
           ipv6_prefixes == [i \in 1..Len(ipv6_feed) |-> aws_ip_prefix(ipv6_feed[i])]
           outcome == AWSIPPrefixes(PyStr("1640995200"), PyStr("2022-01-01-00-00-00"),
                                    ipv4_prefixes, ipv6_prefixes, PyStr("md5"))
       IN  /\ last' = [op |-> "AWSIPPrefixes",
                       args |-> <<ipv4_prefixes, ipv6_prefixes>>,
                       outcome |-> outcome]
           /\ ranges' = IF outcome.status = "ok" THEN outcome.value ELSE PyNone
    /\ ipv4_feed' = <<>>
    /\ ipv6_feed' = <<>>
    /\ UNCHANGED <<records, readers>>

\* combine_prefixes(prefixes) called on the records read so far.
Combine ==
    /\ ranges = PyNone
    /\ last = NoCall
    /\ Len(ipv4_feed) + Len(ipv6_feed) > 1
    /\ LET prefixes ==
               [i \in 1..Len(ipv4_feed) |-> aws_ip_prefix(ipv4_feed[i])]
               \o [i \in 1..Len(ipv6_feed) |-> aws_ip_prefix(ipv6_feed[i])]
       IN  last' = [op |-> "combine_prefixes", args |-> <<prefixes>>,
                    outcome |-> combine_prefixes(prefixes)]
    /\ UNCHANGED <<ipv4_feed, ipv6_feed, ranges, records, readers>>

\* ranges[item]
GetItem(item) ==
    /\ ranges # PyNone
    /\ last = NoCall
    /\ last' = [op |-> "__getitem__", args |-> <<item>>,
                outcome |-> __getitem__(ranges, item)]
    /\ UNCHANGED <<ipv4_feed, ipv6_feed, ranges, records, readers>>

\* item in ranges
Contains(item) ==
    /\ ranges # PyNone
    /\ last = NoCall
    /\ last' = [op |-> "__contains__", args |-> <<item>>,
                outcome |-> __contains__(ranges, item)]
    /\ UNCHANGED <<ipv4_feed, ipv6_feed, ranges, records, readers>>

\* ranges.get(key, default)
Get(key, default) ==
    /\ ranges # PyNone
    /\ last = NoCall
    /\ last' = [op |-> "get", args |-> <<key, default>>,
                outcome |-> get(ranges, key, default)]
    /\ UNCHANGED <<ipv4_feed, ipv6_feed, ranges, records, readers>>

\* ranges.get_prefix_and_supernets(key)
GetPrefixAndSupernets(key) ==
    /\ ranges # PyNone
    /\ last = NoCall
    /\ last' = [op |-> "get_prefix_and_supernets", args |-> <<key>>,
                outcome |-> get_prefix_and_supernets(ranges, key, PyNone)]
    /\ UNCHANGED <<ipv4_feed, ipv6_feed, ranges, records, readers>>

\* ranges.filter(regions, network_border_groups, services, versions)
Filter(regions_, network_border_groups_, services_, versions_) ==
    /\ ranges # PyNone
    /\ last = NoCall
    /\ LET call == filter(ranges, regions_, network_border_groups_,
                          services_, versions_)
       IN  /\ last' = [op |-> "filter",
                       args |-> <<regions_, network_border_groups_,
                                  services_, versions_>>,
                       outcome |-> call.outcome]
           /\ ranges' = call.self
    /\ UNCHANGED <<ipv4_feed, ipv6_feed, records, readers>>

\* tuple(ranges)
Iterate ==
    /\ ranges # PyNone
    /\ last = NoCall
    /\ last' = [op |-> "__iter__", args |-> <<>>,
                outcome |-> Return(PyTuple(__iter__(ranges)))]
    /\ UNCHANGED <<ipv4_feed, ipv6_feed, ranges, records, readers>>

\* len(ranges)
Length ==
    /\ ranges # PyNone
    /\ last = NoCall
    /\ last' = [op |-> "__len__", args |-> <<>>,
                outcome |-> Return(PyInt(__len__(ranges)))]
    /\ UNCHANGED <<ipv4_feed, ipv6_feed, ranges, records, readers>>

\* The caller takes the outcome of the last call; the next call may begin.
\* A constructor that raised ends the program.
TakeOutcome ==
    /\ last # NoCall
    /\ ~ (last.op = "AWSIPPrefixes" /\ last.outcome.status # "ok")
    /\ last' = NoCall
    /\ UNCHANGED <<ipv4_feed, ipv6_feed, ranges, records, readers>>

Next ==
    \/ \E r \in FeedRecords : LoadRecord(r)
    \/ Combine
    \/ Construct
    \/ \E item \in IPItems : GetItem(item)
    \/ \E item \in PrefixItems : GetItem(item)
    \/ \E item \in IPItems : Contains(item)
    \/ \E item \in PrefixItems : Contains(item)
    \/ \E key \in IPItems : Get(key, Default)
    \/ \E key \in PrefixItems : Get(key, Default)
    \/ \E key \in IPItems : GetPrefixAndSupernets(key)
    \/ \E key \in PrefixItems : GetPrefixAndSupernets(key)
    \/ \E r \in 1..Len(RegionArgs), n \in 1..Len(NetworkBorderGroupArgs),
          s \in 1..Len(ServiceArgs), v \in 1..Len(VersionArgs) :
            Filter(RegionArgs[r], NetworkBorderGroupArgs[n],
                   ServiceArgs[s], VersionArgs[v])
    \/ Iterate
    \/ Length
    \/ TakeOutcome

Spec == Init /\ [][Next]_vars

\* ------------------------------------------------------------------------
\* The derived sets read directly: ranges.regions, ranges.network_border_groups
\* and ranges.services, between filters that read them too.
\* ------------------------------------------------------------------------

\* ranges.regions
ReadRegions ==
    /\ ranges # PyNone
    /\ last = NoCall
    /\ ranges' = regions(ranges)
    /\ last' = [op |-> "regions", args |-> <<>>,
                outcome |-> Return(regions(ranges)._regions)]
    /\ UNCHANGED <<ipv4_feed, ipv6_feed, records, readers>>

\* ranges.network_border_groups
ReadNetworkBorderGroups ==
    /\ ranges # PyNone
    /\ last = NoCall
    /\ ranges' = network_border_groups(ranges)
    /\ last' = [op |-> "network_border_groups", args |-> <<>>,
                outcome |-> Return(network_border_groups(ranges)
                                       ._network_border_groups)]
    /\ UNCHANGED <<ipv4_feed, ipv6_feed, records, readers>>

\* ranges.services
ReadServices ==
    /\ ranges # PyNone
    /\ last = NoCall
    /\ ranges' = services(ranges)
    /\ last' = [op |-> "services", args |-> <<>>,
                outcome |-> Return(services(ranges)._services)]
    /\ UNCHANGED <<ipv4_feed, ipv6_feed, records, readers>>

DerivedNext ==
    \/ \E r \in FeedRecords : LoadRecord(r)
    \/ Construct
    \/ ReadRegions
    \/ ReadNetworkBorderGroups
    \/ ReadServices
    \/ \E r \in 1..Len(RegionArgs), s \in 1..Len(ServiceArgs) :
            Filter(RegionArgs[r], PyNone, ServiceArgs[s], PyNone)
    \/ TakeOutcome

DerivedSpec == Init /\ [][DerivedNext]_vars

\* ------------------------------------------------------------------------
\* Several readers (threads) call one collection at the same time.  The steps
\* of a reader are the reads and writes of the fields of the collection: a
\* lookup reads the two sequences, which nothing writes, and is one step; a
\* property read tests its field, computes and assigns it, and returns it, in
\* three steps; filter() reads the three properties one after the other,
\* validating after each, and then builds the new collection.
\* ------------------------------------------------------------------------

\* The documents the shared collection is built from, as [ipv4, ipv6].
ReaderFeeds ==
    << [ipv4 |-> << json_record(Net(4, 0, 1), "us-east-1", "us-east-1", "AMAZON"),
                    json_record(Net(4, 0, 1), "us-east-1", "us-east-1", "EC2"),
                    json_record(Net(4, 1, 1), "ap-south-1", "ap-south-1", "EC2") >>,
        ipv6 |-> << json_record(Net(6, 1, 1), "us-east-1", "us-east-1", "S3") >>],
       [ipv4 |-> << json_record(Net(4, 0, 0), "GLOBAL", "GLOBAL", "AMAZON"),
                    json_record(Net(4, 0, 2), "us-east-1", "us-east-1", "S3") >>,
        ipv6 |-> << json_record(Net(6, 0, 0), "GLOBAL", "GLOBAL", "AMAZON") >>] >>

\* get_ranges() on a document.
get_ranges(feed) ==
    AWSIPPrefixes(PyStr("1640995200"), PyStr("2022-01-01-00-00-00"),
                  [i \in 1..Len(feed.ipv4) |-> aws_ip_prefix(feed.ipv4[i])],
                  [i \in 1..Len(feed.ipv6) |-> aws_ip_prefix(feed.ipv6[i])],
                  PyStr("md5"))

\* The calls a reader makes.
ReaderCalls ==
    << [op |-> "__getitem__", item |-> IPItem(4, 0, Bits4)],
       [op |-> "__contains__", item |-> IPItem(6, 1, Bits6)],
       [op |-> "get", item |-> IPItem(4, 2 ^ Bits4 - 1, Bits4)],
       [op |-> "get_prefix_and_supernets", item |-> IPItem(4, 0, Bits4)],
       [op |-> "regions", field |-> 1],
       [op |-> "network_border_groups", field |-> 2],
       [op |-> "services", field |-> 3],
       [op |-> "filter", field |-> 1,
        args |-> <<PyStr("GLOBAL"), PyNone, PyNone, PyNone>>],
       [op |-> "filter", field |-> 1,
        args |-> <<PyNone, PyNone, PyIter({"EC2", "S3"}), PyInt(4)>>] >>

LookupCalls == {c \in 1..Len(ReaderCalls) : ReaderCalls[c].op \in
                   {"__getitem__", "__contains__", "get", "get_prefix_and_supernets"}}

\* The lookup a call names, on the collection.
lookup(self, call) ==
    IF call.op = "__getitem__" THEN __getitem__(self, call.item)
    ELSE IF call.op = "__contains__" THEN __contains__(self, call.item)
    ELSE IF call.op = "get" THEN get(self, call.item, Default)
    ELSE get_prefix_and_supernets(self, call.item, PyNone)

\* The field of a property: 1 _regions, 2 _network_border_groups,
\* 3 _services.
property_field(self, field) ==
    IF field = 1 THEN self._regions
    ELSE IF field = 2 THEN self._network_border_groups
    ELSE self._services

\* `self._x = frozenset(...)`: the instance after the assignment, made by a
\* reader that found the field None, whatever the field holds by now.
property_assign(self, field) ==
    IF field = 1 THEN regions([self EXCEPT !._regions = PyNone])
    ELSE IF field = 2
    THEN network_border_groups([self EXCEPT !._network_border_groups = PyNone])
    ELSE services([self EXCEPT !._services = PyNone])

\* The last statements of filter() narrowing the sequences of the instance
\* itself.
filter_build_in_place(self, regions_, network_border_groups_, services_, versions_) ==
    LET vs == or_default(normalize_to_set(versions_), {4, 6})
        kept4 == IF 4 \notin vs THEN <<>>
                 ELSE filter_prefixes(self.ipv4_prefixes, regions_,
                                      network_border_groups_, services_)
        kept6 == IF 6 \notin vs THEN <<>>
                 ELSE filter_prefixes(self.ipv6_prefixes, regions_,
                                      network_border_groups_, services_)
    IN  IF ~ validate_values(vs, {4, 6})
        THEN [outcome |-> Raise("ValueError"), self |-> self]
        ELSE [outcome |-> AWSIPPrefixes(self.sync_token, self.create_date,
                                        kept4, kept6, PyNone),
              self |-> [self EXCEPT !.ipv4_prefixes = kept4,
                                    !.ipv6_prefixes = kept6]]

\* The last statements of filter(), run with the sets of regions, network
\* border groups and services it settled on: the versions are normalised
\* and validated and the new collection is built.
filter_build(self, regions_, network_border_groups_, services_, versions_) ==
    LET vs == or_default(normalize_to_set(versions_), {4, 6})
    IN  IF ~ validate_values(vs, {4, 6})
        THEN [outcome |-> Raise("ValueError"), self |-> self]
        ELSE [outcome |->
                 AWSIPPrefixes(
                     self.sync_token, self.create_date,
                     IF 4 \notin vs THEN <<>>
                     ELSE filter_prefixes(self.ipv4_prefixes, regions_,
                                          network_border_groups_, services_),
                     IF 6 \notin vs THEN <<>>
                     ELSE filter_prefixes(self.ipv6_prefixes, regions_,
                                          network_border_groups_, services_),
                     PyNone),
              self |-> self]

\* The collection get_ranges() returned is handed to the readers.
ReaderInit ==
    /\ ipv4_feed = <<>>
    /\ ipv6_feed = <<>>
    /\ \E k \in 1..Len(ReaderFeeds) : ranges = get_ranges(ReaderFeeds[k]).value
    /\ last = NoCall
    /\ records = <<>>
    /\ readers = [i \in Readers |-> Idle]

\* Reader i makes a lookup.
ReaderLookup(i, c) ==
    /\ readers[i].pc = "idle"
    /\ readers' = [readers EXCEPT ![i] =
                      [Idle EXCEPT !.pc = "done", !.call = c,
                                   !.outcome = lookup(ranges, ReaderCalls[c])]]
    /\ UNCHANGED <<ipv4_feed, ipv6_feed, ranges, last, records>>

\* Reader i begins a property read or a filter.
ReaderBegin(i, c) ==
    /\ readers[i].pc = "idle"
    /\ readers' = [readers EXCEPT ![i] =
                      [Idle EXCEPT !.pc = "test", !.call = c,
                                   !.field = ReaderCalls[c].field]]
    /\ UNCHANGED <<ipv4_feed, ipv6_feed, ranges, last, records>>

\* `if self._x is None:`
PropertyTest(i) ==
    /\ readers[i].pc = "test"
    /\ readers' = [readers EXCEPT ![i].pc =
                      IF property_field(ranges, readers[i].field) = PyNone
                      THEN "assign" ELSE "return"]
    /\ UNCHANGED <<ipv4_feed, ipv6_feed, ranges, last, records>>

\* `self._x = frozenset(...)`
PropertyAssign(i) ==
    /\ readers[i].pc = "assign"
    /\ ranges' = property_assign(ranges, readers[i].field)
    /\ readers' = [readers EXCEPT ![i].pc = "return"]
    /\ UNCHANGED <<ipv4_feed, ipv6_feed, last, records>>

\* `return self._x`.  A property read by the application ends here.  Inside
\* filter() the value is the default and the valid values of its argument:
\* the argument is normalised and validated, and filter() raises or goes
\* on to the next property (a second read of the same property, as the
\* valid values, finds the field filled and returns it again).
PropertyReturn(i) ==
    /\ readers[i].pc = "return"
    /\ LET reader == readers[i]
           call == ReaderCalls[reader.call]
           value == property_field(ranges, reader.field)
       IN  IF call.op # "filter"
           THEN readers' = [readers EXCEPT ![i] =
                               [Idle EXCEPT !.pc = "done", !.call = reader.call,
                                            !.outcome = Return(value)]]
           ELSE LET values == or_default(normalize_to_set(call.args[reader.field]),
                                         value.value)
                IN  IF ~ validate_values(values, value.value)
                    THEN readers' = [readers EXCEPT ![i] =
                                        [Idle EXCEPT !.pc = "done",
                                                     !.call = reader.call,
                                                     !.outcome = Raise("ValueError")]]
                    ELSE readers' = [readers EXCEPT ![i] =
                             [reader EXCEPT
                                 !.pc = IF reader.field = 3 THEN "build" ELSE "test",
                                 !.field = IF reader.field = 3 THEN 3
                                           ELSE reader.field + 1,
                                 !.regions = IF reader.field = 1 THEN values
                                             ELSE reader.regions,
                                 !.network_border_groups =
                                     IF reader.field = 2 THEN values
                                     ELSE reader.network_border_groups,
                                 !.services = IF reader.field = 3 THEN values
                                              ELSE reader.services]]
    /\ UNCHANGED <<ipv4_feed, ipv6_feed, ranges, last, records>>

\* The versions and `return self.__class__(...)` of filter().
FilterBuild(i) ==
    /\ readers[i].pc = "build"
    /\ LET reader == readers[i]
           built == filter_build(ranges, reader.regions,
                                 reader.network_border_groups, reader.services,
                                 ReaderCalls[reader.call].args[4])
       IN  /\ ranges' = built.self
           /\ readers' = [readers EXCEPT ![i] =
                              [Idle EXCEPT !.pc = "done", !.call = reader.call,
                                           !.outcome = built.outcome]]
    /\ UNCHANGED <<ipv4_feed, ipv6_feed, last, records>>

\* Reader i takes the outcome of its call.
ReaderTake(i) ==
    /\ readers[i].pc = "done"
    /\ readers' = [readers EXCEPT ![i] = Idle]
    /\ UNCHANGED <<ipv4_feed, ipv6_feed, ranges, last, records>>

ReaderNext ==
    \E i \in Readers :
        \/ \E c \in LookupCalls : ReaderLookup(i, c)
        \/ \E c \in (1..Len(ReaderCalls)) \ LookupCalls : ReaderBegin(i, c)
        \/ PropertyTest(i)
        \/ PropertyAssign(i)
        \/ PropertyReturn(i)
        \/ FilterBuild(i)
        \/ ReaderTake(i)

ReaderSpec == ReaderInit /\ [][ReaderNext]_vars

\* ------------------------------------------------------------------------
\* The records an application builds by hand: AWSIPv4Prefix(...) and
\* AWSIPv6Prefix(...) called with a network or its text, and the records
\* compared with == and <.
\* ------------------------------------------------------------------------

\* A str holding a network in CIDR form, "ip/prefixlen", written in the
\* notation of one IP version; ip and prefixlen are the numbers written.
NetworkText(version, ip, prefixlen) ==
    [type |-> "str", version |-> version, ip |-> ip, prefixlen |-> prefixlen]

\* str(network)
TextOf(network) ==
    NetworkText(network.version, network.network_address, network.prefixlen)

\* An IPv4Network / IPv6Network object.
NetworkObject(network) ==
    [type |-> IF network.version = 4 THEN "IPv4Network" ELSE "IPv6Network",
     value |-> network]

\* check_type: TRUE when it returns, FALSE when it raises TypeError.
check_type(obj, acceptable_types) == obj.type \in acceptable_types

\* ip_network(text, strict=False) in place of the strict parse.
ip_network_masking(text) ==
    IF \/ text.prefixlen \notin 0..max_prefixlen(text.version)
       \/ text.ip \notin 0..(2 ^ max_prefixlen(text.version) - 1)
    THEN Raise("ValueError")
    ELSE Return(ip_network(text))

\* ip_network(text): the address and the prefix length must be those of
\* the version, and no host bit may be set.
ip_network_strict(text) ==
    IF \/ text.prefixlen \notin 0..max_prefixlen(text.version)
       \/ text.ip \notin 0..(2 ^ max_prefixlen(text.version) - 1)
    THEN Raise("ValueError")
    ELSE IF Mask(text.version, text.ip, text.prefixlen) # text.ip
    THEN Raise("ValueError")
    ELSE Return([version |-> text.version,
                 network_address |-> text.ip,
                 prefixlen |-> text.prefixlen])

\* AWSIPPrefix.__init__ with its argument checks.
AWSIPPrefix__init__(prefix, region, network_border_group, services_) ==
    IF ~ /\ check_type(prefix, {"str", "IPv4Network", "IPv6Network"})
         /\ check_type(region, {"str"})
         /\ check_type(network_border_group, {"str"})
         /\ check_type(services_, {"str", "tuple"})
    THEN Raise("TypeError")
    ELSE LET network == IF prefix.type = "str" THEN ip_network_strict(prefix)
                        ELSE Return(prefix.value)
         IN  IF network.status # "ok" THEN network
             ELSE Return(AWSIPPrefix(network.value, region.value,
                                     network_border_group.value, services_))

\* AWSIPv4Prefix.__init__
AWSIPv4Prefix(prefix, region, network_border_group, services_) ==
    LET self == AWSIPPrefix__init__(prefix, region, network_border_group, services_)
    IN  IF self.status # "ok" THEN self
        ELSE IF self.value.prefix.version # 4 THEN Raise("TypeError")
        ELSE self

\* AWSIPv6Prefix.__init__
AWSIPv6Prefix(prefix, region, network_border_group, services_) ==
    LET self == AWSIPPrefix__init__(prefix, region, network_border_group, services_)
    IN  IF self.status # "ok" THEN self
        ELSE IF self.value.prefix.version # 6 THEN Raise("TypeError")
        ELSE self

\* AWSIPPrefix.__eq__ against another AWSIPPrefix: equality of __tuple.
AWSIPPrefix_eq(self, other) ==
    <<self.prefix, self.region, self.network_border_group, self.services>>
    = <<other.prefix, other.region, other.network_border_group, other.services>>

\* The constructor calls the application makes: <<class, prefix, region,
\* network_border_group, services>>. Networks given as text and as objects,
\* services given as a string and as tuples in and out of order and with a
\* repeated name, and calls the constructor rejects.
RecordArgs ==
    << <<4, TextOf(Net(4, 0, 1)), PyStr("us-east-1"), PyStr("us-east-1"),
         PyStr("S3")>>,
       <<4, TextOf(Net(4, 0, 1)), PyStr("us-east-1"), PyStr("us-east-1"),
         PyTuple(<<"S3", "EC2">>)>>,
       <<4, NetworkObject(Net(4, 0, 1)), PyStr("us-east-1"), PyStr("us-east-1"),
         PyTuple(<<"EC2", "S3">>)>>,
       <<4, TextOf(Net(4, 0, 1)), PyStr("us-east-1"), PyStr("us-east-1"),
         PyTuple(<<"S3", "EC2", "S3">>)>>,
       <<4, TextOf(Net(4, 0, 1)), PyStr("us-east-1"), PyStr("us-east-1-bos-1"),
         PyStr("EC2")>>,
       <<4, TextOf(Net(4, 0, 1)), PyStr("ap-south-1"), PyStr("us-east-1"),
         PyTuple(<<"S3">>)>>,
       <<4, TextOf(Net(4, 0, 0)), PyStr("GLOBAL"), PyStr("GLOBAL"),
         PyStr("AMAZON")>>,
       <<4, TextOf(Net(4, 1, 1)), PyStr("ap-south-1"), PyStr("ap-south-1"),
         PyStr("EC2")>>,
       <<4, NetworkObject(Net(4, 0, 2)), PyStr("us-east-1"), PyStr("us-east-1"),
         PyStr("EC2")>>,
       <<6, TextOf(Net(6, 0, 0)), PyStr("GLOBAL"), PyStr("GLOBAL"),
         PyStr("AMAZON")>>,
       <<6, NetworkObject(Net(6, 1, 1)), PyStr("us-east-1"), PyStr("us-east-1"),
         PyStr("S3")>>,
       <<4, NetworkText(4, Net(4, 1, 1).network_address + 1, 1),
         PyStr("us-east-1"), PyStr("us-east-1"), PyStr("S3")>>,
       <<4, NetworkText(4, 0, Bits4 + 1), PyStr("us-east-1"), PyStr("us-east-1"),
         PyStr("S3")>>,
       <<6, NetworkText(6, 2 ^ Bits6, Bits6), PyStr("us-east-1"),
         PyStr("us-east-1"), PyStr("S3")>>,
       <<4, TextOf(Net(6, 0, 0)), PyStr("GLOBAL"), PyStr("GLOBAL"),
         PyStr("AMAZON")>>,
       <<4, PyNone, PyStr("us-east-1"), PyStr("us-east-1"), PyStr("S3")>>,
       <<4, TextOf(Net(4, 0, 1)), PyStr("us-east-1"), PyStr("us-east-1"),
         PyIter({"S3"})>> >>

\* AWSIPv4Prefix(...) or AWSIPv6Prefix(...): the application keeps the
\* record when the constructor returns one.
NewRecord(class, prefix, region, network_border_group, services_) ==
    /\ last = NoCall
    /\ Len(records) < MaxRecords
    /\ LET outcome ==
               IF class = 4
               THEN AWSIPv4Prefix(prefix, region, network_border_group, services_)
               ELSE AWSIPv6Prefix(prefix, region, network_border_group, services_)
       IN  /\ last' = [op |-> IF class = 4 THEN "AWSIPv4Prefix"
                               ELSE "AWSIPv6Prefix",
                       args |-> <<prefix, region, network_border_group, services_>>,
                       outcome |-> outcome]
           /\ records' = IF outcome.status = "ok"
                         THEN Append(records, outcome.value)
                         ELSE records
    /\ UNCHANGED <<ipv4_feed, ipv6_feed, ranges, readers>>

\* records[i] < records[j]
LessThan(i, j) ==
    /\ last = NoCall
    /\ last' = [op |-> "__lt__", args |-> <<records[i], records[j]>>,
                outcome |-> Return(AWSIPPrefix_lt(records[i], records[j]))]
    /\ UNCHANGED <<ipv4_feed, ipv6_feed, ranges, records, readers>>

\* records[i] == records[j]
Equal(i, j) ==
    /\ last = NoCall
    /\ last' = [op |-> "__eq__", args |-> <<records[i], records[j]>>,
                outcome |-> Return(AWSIPPrefix_eq(records[i], records[j]))]
    /\ UNCHANGED <<ipv4_feed, ipv6_feed, ranges, records, readers>>

RecordNext ==
    \/ \E a \in 1..Len(RecordArgs) :
           NewRecord(RecordArgs[a][1], RecordArgs[a][2], RecordArgs[a][3],
                     RecordArgs[a][4], RecordArgs[a][5])
    \/ \E i, j \in 1..Len(records) : LessThan(i, j)
    \/ \E i, j \in 1..Len(records) : Equal(i, j)
    \/ TakeOutcome

RecordSpec == Init /\ [][RecordNext]_vars

\* ------------------------------------------------------------------------
\* One record tested against items (item in record) and compared with
\* operands that are not records (record == other, record < other).
\* ------------------------------------------------------------------------

\* __contains__ asking whether the record's network is a subnet of the item.
AWSIPPrefix__contains___reversed(self, item) ==
    IF ~ check_type(item, {"ip"}) THEN Raise("TypeError")
    ELSE LET item_network_ == ip_network(item)
         IN  IF item_network_.version # self.prefix.version THEN Return(FALSE)
             ELSE Return(subnet_of(self.prefix, item_network_))

\* AWSIPPrefix.__contains__; an item of type "ip" is a str, an address, an
\* interface or a network.
AWSIPPrefix__contains__(self, item) ==
    IF ~ check_type(item, {"ip"}) THEN Raise("TypeError")
    ELSE LET item_network_ == ip_network(item)
         IN  IF item_network_.version # self.prefix.version THEN Return(FALSE)
             ELSE Return(subnet_of(item_network_, self.prefix))

\* AWSIPPrefix.__eq__ against any operand.
AWSIPPrefix__eq__(self, other) ==
    IF other.type = "NoneType" THEN Return(FALSE)
    ELSE IF other.type = "str"
    THEN LET network == ip_network_strict(other)
         IN  IF network.status # "ok" THEN network
             ELSE Return(self.prefix = network.value)
    ELSE IF other.type \in {"IPv4Network", "IPv6Network"}
    THEN Return(self.prefix = other.value)
    ELSE IF other.type = "AWSIPPrefix"
    THEN Return(AWSIPPrefix_eq(self, other.value))
    ELSE Raise("TypeError")

\* AWSIPPrefix.__lt__ against any operand: a network is compared with the
\* record's network (ipaddress raises TypeError across versions), anything
\* else is read as a record, through other.prefix.
AWSIPPrefix__lt__(self, other) ==
    IF other.type \in {"IPv4Network", "IPv6Network"}
    THEN IF self.prefix.version # other.value.version THEN Raise("TypeError")
         ELSE Return(AWSIPPrefix_lt_network(self, other.value))
    ELSE IF other.type = "AWSIPPrefix"
    THEN Return(AWSIPPrefix_lt(self, other.value))
    ELSE Raise("AttributeError")

\* The operands a record is compared with: networks of both versions, texts
\* of networks (one with host bits set, one with a prefix length out of
\* range), None and an int.
Operands ==
    << NetworkObject(Net(4, 0, 0)), NetworkObject(Net(4, 0, 1)),
       NetworkObject(Net(4, 1, 1)), NetworkObject(Net(4, 0, 2)),
       NetworkObject(Net(6, 0, 0)), NetworkObject(Net(6, 1, 1)),
       TextOf(Net(4, 0, 0)), TextOf(Net(4, 0, 1)), TextOf(Net(4, 1, 1)),
       TextOf(Net(6, 1, 1)),
       NetworkText(4, Net(4, 1, 1).network_address + 1, 1),
       NetworkText(4, 0, Bits4 + 1),
       PyNone, PyInt(5) >>

\* item in records[1]
RecordContains(item) ==
    /\ last = NoCall
    /\ records # <<>>
    /\ last' = [op |-> "__contains__", args |-> <<records[1], item>>,
                outcome |-> AWSIPPrefix__contains__(records[1], item)]
    /\ UNCHANGED <<ipv4_feed, ipv6_feed, ranges, records, readers>>

\* records[1] == other
EqualOperand(other) ==
    /\ last = NoCall
    /\ records # <<>>
    /\ last' = [op |-> "__eq__", args |-> <<records[1], other>>,
                outcome |-> AWSIPPrefix__eq__(records[1], other)]
    /\ UNCHANGED <<ipv4_feed, ipv6_feed, ranges, records, readers>>

\* records[1] < other
LessThanOperand(other) ==
    /\ last = NoCall
    /\ records # <<>>
    /\ last' = [op |-> "__lt__", args |-> <<records[1], other>>,
                outcome |-> AWSIPPrefix__lt__(records[1], other)]
    /\ UNCHANGED <<ipv4_feed, ipv6_feed, ranges, records, readers>>

OperandNext ==
    \/ \E a \in 1..Len(RecordArgs) :
           /\ records = <<>>
           /\ NewRecord(RecordArgs[a][1], RecordArgs[a][2], RecordArgs[a][3],
                        RecordArgs[a][4], RecordArgs[a][5])
    \/ \E item \in IPItems : RecordContains(item)
    \/ \E o \in 1..Len(Operands) : EqualOperand(Operands[o])
    \/ \E o \in 1..Len(Operands) : LessThanOperand(Operands[o])
    \/ TakeOutcome

OperandSpec == Init /\ [][OperandNext]_vars

\* ------------------------------------------------------------------------
\* exceptions.raise_for_status, called on the response of the download.
\* ------------------------------------------------------------------------

\* A response object: `has` names the attributes it carries, the other
\* fields are the values those attributes (or methods) give.
hasattr(response, name) == name \in response.has

\* HTTPError(message, status=status, reason=reason)
HTTPError(message, url, status, reason) ==
    [status |-> "HTTPError", message |-> message, url |-> url,
     http_status |-> status, reason |-> reason]

\* raise_for_status reading `code` before `status`.
raise_for_status_code_first(response) ==
    IF ~ \E name \in {"status", "code", "getstatus"} : hasattr(response, name)
    THEN Raise("ValueError")
    ELSE IF ~ \E name \in {"url", "geturl"} : hasattr(response, name)
    THEN Raise("ValueError")
    ELSE
    LET status == IF hasattr(response, "code") THEN response.code
                  ELSE IF hasattr(response, "status") THEN response.status
                  ELSE response.getstatus
        url == IF hasattr(response, "url") THEN response.url
               ELSE response.geturl
        reason == IF hasattr(response, "reason") THEN response.reason
                  ELSE PyNone
    IN  IF 400 <= status /\ status < 500
        THEN HTTPError("Client error for URL:", url, status, reason)
        ELSE IF 500 <= status /\ status < 600
        THEN HTTPError("Server error for URL:", url, status, reason)
        ELSE Return(PyNone)

\* raise_for_status(response)
raise_for_status(response) ==
    IF ~ \E name \in {"status", "code", "getstatus"} : hasattr(response, name)
    THEN Raise("ValueError")
    ELSE IF ~ \E name \in {"url", "geturl"} : hasattr(response, name)
    THEN Raise("ValueError")
    ELSE
    LET status == IF hasattr(response, "status") THEN response.status
                  ELSE IF hasattr(response, "code") THEN response.code
                  ELSE response.getstatus
        url == IF hasattr(response, "url") THEN response.url
               ELSE response.geturl
        reason == IF hasattr(response, "reason") THEN response.reason
                  ELSE PyNone
    IN  IF 400 <= status /\ status < 500
        THEN HTTPError("Client error for URL:", url, status, reason)
        ELSE IF 500 <= status /\ status < 600
        THEN HTTPError("Server error for URL:", url, status, reason)
        ELSE Return(PyNone)

\* The status codes responses carry: both ends of the 4xx and 5xx classes
\* and their neighbours.
StatusCodes == {200, 399, 400, 404, 499, 500, 503, 599, 600}

\* The responses raise_for_status is called on (http.client.HTTPResponse has
\* status, url and reason; older response objects have code or getstatus()
\* and geturl(); the tests add responses without a status or without a url).
Responses ==
    [has : SUBSET {"status", "code", "getstatus", "url", "geturl", "reason"},
     status : StatusCodes, code : {200, 404, 500}, getstatus : {200, 404, 500},
     url : {"https://ip-ranges.amazonaws.com/ip-ranges.json"},
     geturl : {"https://ip-ranges.amazonaws.com/"},
     reason : {PyStr("Not Found")}]

\* raise_for_status(response)
RaiseForStatus(response) ==
    /\ last = NoCall
    /\ last' = [op |-> "raise_for_status", args |-> <<response>>,
                outcome |-> raise_for_status(response)]
    /\ UNCHANGED <<ipv4_feed, ipv6_feed, ranges, records, readers>>

ResponseNext ==
    \/ \E response \in Responses : RaiseForStatus(response)
    \/ TakeOutcome

ResponseSpec == Init /\ [][ResponseNext]_vars

\* ------------------------------------------------------------------------
\* Properties
\* ------------------------------------------------------------------------

\* The addresses of a network.
Addresses(network) ==
    {a \in 0..(2 ^ max_prefixlen(network.version) - 1) :
        Mask(network.version, a, network.prefixlen) = network.network_address}

\* Network `outer` contains network `inner`.
NetworkContains(outer, inner) ==
    /\ outer.version = inner.version
    /\ Addresses(inner) \subseteq Addresses(outer)

\* The records stored in a collection.
Stored(self) == Range(self.ipv4_prefixes) \cup Range(self.ipv6_prefixes)

\* The stored records whose network contains the network.
Containing(self, network) ==
    {s \in Stored(self) : NetworkContains(s.prefix, network)}

\* C1: whenever ranges[item] returns a record r, r is stored, has the item's
\* IP version, its network contains the item's network, and no stored record
\* containing the item has a longer prefix than r.
C1_LongestPrefixMatch ==
    (last.op = "__getitem__" /\ last.outcome.status = "ok") =>
        LET network == item_network(last.args[1])
            r == last.outcome.value
        IN  /\ r \in Stored(ranges)
            /\ r.prefix.version = network.version
            /\ NetworkContains(r.prefix, network)
            /\ \A s \in Containing(ranges, network) :
                   s.prefix.prefixlen <= r.prefix.prefixlen

\* A match that had to choose: a shorter stored prefix of length >= 1 also
\* contains the item.
C1_Witness ==
    /\ last.op = "__getitem__"
    /\ last.outcome.status = "ok"
    /\ \E s \in Containing(ranges, item_network(last.args[1])) :
           /\ s.prefix.prefixlen >= 1
           /\ s.prefix.prefixlen < last.outcome.value.prefix.prefixlen

\* C2: ranges[item] raises KeyError if and only if no stored record of the
\* item's version has a network containing the item's network (a stored /0
\* record included).
C2_KeyErrorIffNoneContains ==
    last.op = "__getitem__" =>
        (last.outcome.status = "KeyError"
            <=> Containing(ranges, item_network(last.args[1])) = {})

\* C3: get_prefix_and_supernets(item) returns exactly the stored records of
\* the item's version whose network contains the item's network.
C3_AncestorsAreAllContaining ==
    last.op = "get_prefix_and_supernets" =>
        LET returned == IF last.outcome.value = PyNone THEN {}
                        ELSE Range(last.outcome.value.value)
        IN  returned = Containing(ranges, item_network(last.args[1]))

\* C4: a non-empty result of get_prefix_and_supernets(item) has strictly
\* increasing prefix lengths and its last element is ranges[item].
C4_AncestorsAscendingLastIsMatch ==
    (last.op = "get_prefix_and_supernets" /\ last.outcome.value # PyNone) =>
        LET t == last.outcome.value.value
            match == __getitem__(ranges, last.args[1])
        IN  /\ \A i \in 1..(Len(t) - 1) :
                   t[i].prefix.prefixlen < t[i + 1].prefix.prefixlen
            /\ match.status = "ok"
            /\ t[Len(t)] = match.value

\* A result of two or more records.
C4_Witness ==
    /\ last.op = "get_prefix_and_supernets"
    /\ last.outcome.value # PyNone
    /\ Len(last.outcome.value.value) >= 2

\* The sequence is strictly ascending under AWSIPPrefix.__lt__.
StrictlyAscending(t) ==
    \A i, j \in 1..Len(t) : i < j => AWSIPPrefix_lt(t[i], t[j])

\* No two records of the sequence have the same network.
UniqueNetworks(t) ==
    \A i, j \in 1..Len(t) : i # j => t[i].prefix # t[j].prefix

SortedAndDeduplicated(self) ==
    /\ StrictlyAscending(self.ipv4_prefixes)
    /\ UniqueNetworks(self.ipv4_prefixes)
    /\ StrictlyAscending(self.ipv6_prefixes)
    /\ UniqueNetworks(self.ipv6_prefixes)

\* C5: in every collection produced by construction or by filter, each
\* per-version sequence is strictly ascending under the record order and holds
\* no two records of one network.
C5_SortedAndDeduplicated ==
    /\ ranges # PyNone => SortedAndDeduplicated(ranges)
    /\ (last.op \in {"AWSIPPrefixes", "filter"} /\ last.outcome.status = "ok")
           => SortedAndDeduplicated(last.outcome.value)

\* A collection of two or more IPv4 records built from an input that was out
\* of order and listed one network twice.
C5_Witness ==
    /\ last.op = "AWSIPPrefixes"
    /\ last.outcome.status = "ok"
    /\ Len(last.outcome.value.ipv4_prefixes) >= 2
    /\ ~ StrictlyAscending(last.args[1])
    /\ ~ UniqueNetworks(last.args[1])

\* The sequence of strings is strictly ascending (sorted, no repeated name).
StrictlyAscendingStrings(t) ==
    \A i, j \in 1..Len(t) : i < j => StrLt(t[i], t[j])

\* Two records agree on network, region and network border group.
SameBlock(a, b) ==
    /\ a.prefix = b.prefix
    /\ a.region = b.region
    /\ a.network_border_group = b.network_border_group

\* The network as an item to look up.
NetworkItem(network) ==
    IPItem(network.version, network.network_address, network.prefixlen)

\* The input records of one network were merged into one stored record with
\* the union of their services.
MergedOnce(input, stored, i) ==
    LET positions == {k \in 1..Len(stored) : stored[k].prefix = input[i].prefix}
        union == UNION {Range(input[k].services) :
                     k \in {k \in 1..Len(input) : SameBlock(input[k], input[i])}}
    IN  /\ Cardinality(positions) = 1
        /\ \A k \in positions :
               /\ SameBlock(stored[k], input[i])
               /\ Range(stored[k].services) = union
               /\ StrictlyAscendingStrings(stored[k].services)

\* C6: when the input holds two or more records of one network, region and
\* network border group, the constructed collection holds exactly one record
\* of that network, its services are the sorted union of theirs, and looking
\* the network up (ranges[network]) returns that record.
C6_DuplicatesMergedAndFound ==
    (last.op = "AWSIPPrefixes" /\ last.outcome.status = "ok") =>
        \A v \in 1..2 :
            LET input == last.args[v]
                stored == IF v = 1 THEN last.outcome.value.ipv4_prefixes
                          ELSE last.outcome.value.ipv6_prefixes
            IN  \A i, j \in 1..Len(input) :
                    (i # j /\ SameBlock(input[i], input[j])) =>
                        /\ MergedOnce(input, stored, i)
                        /\ LET match == __getitem__(last.outcome.value,
                                                    NetworkItem(input[i].prefix))
                           IN  /\ match.status = "ok"
                               /\ match.value \in Range(stored)
                               /\ match.value.prefix = input[i].prefix

\* C7: construction raises, and leaves no collection, whenever the input of
\* one version holds two records of one network with different regions or
\* different network border groups.
Conflicting(input) ==
    \E i, j \in 1..Len(input) :
        /\ input[i].prefix = input[j].prefix
        /\ \/ input[i].region # input[j].region
           \/ input[i].network_border_group # input[j].network_border_group

C7_ConflictAbortsConstruction ==
    (last.op = "AWSIPPrefixes"
        /\ (Conflicting(last.args[1]) \/ Conflicting(last.args[2])))
    => (last.outcome.status = "ValueError" /\ ranges = PyNone)

\* A construction that raised on an input of three records whose first and
\* last conflict.
C7_Witness ==
    /\ last.op = "AWSIPPrefixes"
    /\ last.outcome.status = "ValueError"
    /\ Len(last.args[1]) = 3
    /\ last.args[1][1].prefix = last.args[1][3].prefix
    /\ last.args[1][1].prefix # last.args[1][2].prefix
    /\ last.args[1][1].network_border_group # last.args[1][3].network_border_group

\* C8: combine_prefixes succeeds if and only if all records share network,
\* region and network border group; it then returns a record of that IP
\* version, network, region and border group, and the inputs are unchanged.
C8_CombineIffSameBlock ==
    last.op = "combine_prefixes" =>
        LET prefixes == last.args[1]
            same == \A i, j \in 1..Len(prefixes) : SameBlock(prefixes[i], prefixes[j])
        IN  /\ (last.outcome.status = "ok") <=> same
            /\ last.outcome.status = "ok" =>
                   /\ SameBlock(last.outcome.value, prefixes[1])
                   /\ last.outcome.value.prefix.version = prefixes[1].prefix.version
            /\ prefixes = [i \in 1..Len(ipv4_feed) |-> aws_ip_prefix(ipv4_feed[i])]
                          \o [i \in 1..Len(ipv6_feed) |-> aws_ip_prefix(ipv6_feed[i])]

\* A successful combination of records with different services.
C8_Witness ==
    /\ last.op = "combine_prefixes"
    /\ last.outcome.status = "ok"
    /\ \E i, j \in 1..Len(last.args[1]) :
           last.args[1][i].services # last.args[1][j].services

\* The values observed in the records of a collection.
ObservedRegions(self) == {p.region : p \in Stored(self)}

ObservedNetworkBorderGroups(self) == {p.network_border_group : p \in Stored(self)}

ObservedServices(self) == UNION {Range(p.services) : p \in Stored(self)}

\* The values a filter argument provides: none when it is unset.
Provided(arg) ==
    IF arg = PyNone THEN {}
    ELSE IF arg.type \in {"str", "int"} THEN {arg.value}
    ELSE arg.value

\* The set a filter condition tests against: the provided values, or all
\* the observed ones when none is provided.
Requested(arg, observed) ==
    IF Provided(arg) = {} THEN observed ELSE Provided(arg)

\* C9: a successful filter returns exactly the source records, unaltered and
\* in the source's order, whose region, network border group and IP version
\* are in the requested sets and one of whose services is requested.
C9_FilterKeepsExactlyTheMatching ==
    (last.op = "filter" /\ last.outcome.status = "ok") =>
        LET R == Requested(last.args[1], ObservedRegions(ranges))
            N == Requested(last.args[2], ObservedNetworkBorderGroups(ranges))
            S == Requested(last.args[3], ObservedServices(ranges))
            V == Requested(last.args[4], {4, 6})
            Keep(p) ==
                /\ p.region \in R
                /\ p.network_border_group \in N
                /\ \E service \in Range(p.services) : service \in S
                /\ p.prefix.version \in V
        IN  /\ last.outcome.value.ipv4_prefixes
                   = SelectSeq(ranges.ipv4_prefixes, Keep)
            /\ last.outcome.value.ipv6_prefixes
                   = SelectSeq(ranges.ipv6_prefixes, Keep)

\* A filter with all four arguments given that keeps some records of the
\* source, among them one with several services, and drops others.
C9_Witness ==
    /\ last.op = "filter"
    /\ last.outcome.status = "ok"
    /\ \A k \in 1..4 : last.args[k] # PyNone
    /\ Len(last.outcome.value.ipv4_prefixes) >= 1
    /\ Len(last.outcome.value.ipv4_prefixes) < Len(ranges.ipv4_prefixes)
    /\ \E p \in Range(last.outcome.value.ipv4_prefixes) : Len(p.services) >= 2

\* C10: filter raises ValueError, returning no collection, whenever a
\* provided region, network border group or service is not observed in the
\* source collection, or a provided version is not 4 or 6.
C10_UnknownValueRaises ==
    (last.op = "filter"
        /\ \/ ~ (Provided(last.args[1]) \subseteq ObservedRegions(ranges))
           \/ ~ (Provided(last.args[2]) \subseteq ObservedNetworkBorderGroups(ranges))
           \/ ~ (Provided(last.args[3]) \subseteq ObservedServices(ranges))
           \/ ~ (Provided(last.args[4]) \subseteq {4, 6}))
    => last.outcome.status = "ValueError"

\* A filter that raised for an unknown service alone, on a source that holds
\* records.
C10_Witness ==
    /\ last.op = "filter"
    /\ last.outcome.status = "ValueError"
    /\ Stored(ranges) # {}
    /\ last.args[1] # PyNone
    /\ Provided(last.args[1]) \subseteq ObservedRegions(ranges)
    /\ Provided(last.args[2]) \subseteq ObservedNetworkBorderGroups(ranges)
    /\ ~ (Provided(last.args[3]) \subseteq ObservedServices(ranges))
    /\ Provided(last.args[4]) \subseteq {4, 6}

\* C11: the collection a successful filter returns has the sync_token, the
\* create_date and the md5 of the collection it was called on.
C11_FilterCarriesMetadata ==
    (last.op = "filter" /\ last.outcome.status = "ok") =>
        /\ last.outcome.value.sync_token = ranges.sync_token
        /\ last.outcome.value.create_date = ranges.create_date
        /\ last.outcome.value.md5 = ranges.md5

\* What a caller can read of a collection: its length, its sequences, its
\* metadata and the values of its derived sets.
SourceView(self) ==
    [len |-> Len(self.ipv4_prefixes) + Len(self.ipv6_prefixes),
     ipv4_prefixes |-> self.ipv4_prefixes,
     ipv6_prefixes |-> self.ipv6_prefixes,
     sync_token |-> self.sync_token,
     create_date |-> self.create_date,
     md5 |-> self.md5,
     regions |-> regions(self)._regions.value,
     network_border_groups |->
         network_border_groups(self)._network_border_groups.value,
     services |-> services(self)._services.value]

\* C12: a filter call, returning or raising, leaves the length, the IPv4 and
\* IPv6 sequences, the metadata and the values of the derived sets of the
\* collection it is called on as they were before the call.
C12_FilterLeavesSourceUnchanged ==
    [][(last.op = "none" /\ last'.op = "filter")
           => SourceView(ranges') = SourceView(ranges)]_vars

\* A filter that returned fewer records than its source holds, of both
\* versions, and filled the caches of the source.
C12_Witness ==
    /\ last.op = "filter"
    /\ last.outcome.status = "ok"
    /\ Len(last.outcome.value.ipv4_prefixes) < Len(ranges.ipv4_prefixes)
    /\ Len(last.outcome.value.ipv6_prefixes) < Len(ranges.ipv6_prefixes)
    /\ ranges._services # PyNone

\* The values of filter parameter k observed in the records of a collection.
ObservedValues(self, k) ==
    CASE k = 1 -> ObservedRegions(self)
      [] k = 2 -> ObservedNetworkBorderGroups(self)
      [] k = 3 -> ObservedServices(self)
      [] k = 4 -> {p.prefix.version : p \in Stored(self)}

\* C13: filter() with no argument returns the records of the source, and a
\* filter call with a parameter unset returns or raises what the same call
\* does with that parameter set to all the values observed in the source.
C13_UnsetMeansAllObserved ==
    last.op = "filter" =>
        /\ (\A k \in 1..4 : last.args[k] = PyNone) =>
               /\ last.outcome.status = "ok"
               /\ last.outcome.value.ipv4_prefixes = ranges.ipv4_prefixes
               /\ last.outcome.value.ipv6_prefixes = ranges.ipv6_prefixes
        /\ \A k \in 1..4 :
               last.args[k] = PyNone =>
                   LET args == [last.args EXCEPT
                                   ![k] = PyIter(ObservedValues(ranges, k))]
                   IN  filter(ranges, args[1], args[2], args[3], args[4]).outcome
                           = last.outcome

\* filter() with no argument on a collection of records of both versions,
\* several regions and several services.
C13_Witness ==
    /\ last.op = "filter"
    /\ \A k \in 1..4 : last.args[k] = PyNone
    /\ Len(ranges.ipv4_prefixes) >= 2
    /\ Len(ranges.ipv6_prefixes) >= 1
    /\ Cardinality(ObservedRegions(ranges)) >= 2
    /\ Cardinality(ObservedServices(ranges)) >= 2

\* C14: on a collection in which "AMAZON" is an observed service,
\* filter(services="AMAZON") returns all the records of the collection.
C14_AmazonMatchesEveryRecord ==
    (/\ last.op = "filter"
     /\ last.args = <<PyNone, PyNone, PyStr("AMAZON"), PyNone>>
     /\ "AMAZON" \in ObservedServices(ranges))
    => /\ last.outcome.status = "ok"
       /\ last.outcome.value.ipv4_prefixes = ranges.ipv4_prefixes
       /\ last.outcome.value.ipv6_prefixes = ranges.ipv6_prefixes

\* C15: `item in ranges` returns whether ranges[item] succeeds, and
\* ranges.get(item, default) returns the record ranges[item] returns, or the
\* default when ranges[item] raises KeyError; neither raises.
C15_ContainsAndGetFollowMatch ==
    /\ last.op = "__contains__" =>
           last.outcome
               = Return(__getitem__(ranges, last.args[1]).status = "ok")
    /\ last.op = "get" =>
           LET match == __getitem__(ranges, last.args[1])
           IN  /\ last.outcome.status = "ok"
               /\ last.outcome.value
                      = IF match.status = "ok" THEN match.value
                        ELSE last.args[2]

\* `item in ranges` answered True through a stored supernet of the item,
\* the item's own network not being stored.
C15_Witness ==
    /\ last.op = "__contains__"
    /\ last.outcome = Return(TRUE)
    /\ _get_prefix(ranges, item_network(last.args[1])) = PyNone

\* The IP version and the network of an item, read from the item itself.
ItemVersion(item) ==
    IF item.type = "AWSIPPrefix" THEN item.value.prefix.version
    ELSE item.version

OwnNetwork(item) ==
    IF item.type = "AWSIPPrefix" THEN item.value.prefix ELSE ip_network(item)

\* C16: ranges[item] and get_prefix_and_supernets(item) return records of the
\* item's IP version only, and when no stored record of that version contains
\* the item they raise KeyError and return the default, whatever the
\* sequence of the other version holds.
C16_OnlyOwnVersionSearched ==
    /\ last.op = "__getitem__" =>
           /\ last.outcome.status \in {"ok", "KeyError"}
           /\ last.outcome.status = "ok" =>
                  last.outcome.value.prefix.version = ItemVersion(last.args[1])
           /\ Containing(ranges, OwnNetwork(last.args[1])) = {} =>
                  last.outcome.status = "KeyError"
    /\ last.op = "get_prefix_and_supernets" =>
           /\ last.outcome.status = "ok"
           /\ last.outcome.value # PyNone =>
                  \A i \in 1..Len(last.outcome.value.value) :
                      last.outcome.value.value[i].prefix.version
                          = ItemVersion(last.args[1])
           /\ Containing(ranges, OwnNetwork(last.args[1])) = {} =>
                  last.outcome.value = PyNone

\* A lookup of an IPv4 item that raised KeyError on a collection whose IPv6
\* sequence holds a record of the numerically same address and IPv4 sequence
\* holds other records.
C16_Witness ==
    /\ last.op = "__getitem__"
    /\ last.outcome.status = "KeyError"
    /\ ItemVersion(last.args[1]) = 4
    /\ ranges.ipv4_prefixes # <<>>
    /\ \E s \in Range(ranges.ipv6_prefixes) :
           s.prefix.network_address = OwnNetwork(last.args[1]).network_address

\* The key of the record order and its lexicographic comparison: the first
\* component that differs decides.
OrderKey(p) ==
    <<p.prefix.version, p.prefix.network_address, p.prefix.prefixlen,
      p.region, p.network_border_group, p.services>>

ComponentLess(k, x, y) ==
    CASE k \in 1..3 -> x < y
      [] k \in 4..5 -> StrLt(x, y)
      [] k = 6 -> tuple_lt(x, y)

LexicographicallyLess(a, b) ==
    \E k \in 1..6 :
        /\ \A j \in 1..(k - 1) : OrderKey(a)[j] = OrderKey(b)[j]
        /\ OrderKey(a)[k] # OrderKey(b)[k]
        /\ ComponentLess(k, OrderKey(a)[k], OrderKey(b)[k])

\* C17: a < b on records is the lexicographic order on (IP version, network
\* address, prefix length, region, network border group, services tuple); it
\* is irreflexive and transitive, and of a < b, b < a, a == b exactly one
\* holds.
C17_StrictTotalOrder ==
    last.op = "__lt__" =>
        LET a == last.args[1]
            b == last.args[2]
        IN  /\ last.outcome = Return(LexicographicallyLess(a, b))
            /\ ~ AWSIPPrefix_lt(a, a)
            /\ Cardinality({k \in 1..3 :
                   \/ k = 1 /\ last.outcome.value
                   \/ k = 2 /\ AWSIPPrefix_lt(b, a)
                   \/ k = 3 /\ AWSIPPrefix_eq(a, b)}) = 1
            /\ \A c \in Range(records) :
                   (last.outcome.value /\ AWSIPPrefix_lt(b, c))
                       => AWSIPPrefix_lt(a, c)

\* Three different records held, and a < b answered True for two records
\* that differ in their services alone.
C17_Witness ==
    /\ Cardinality(Range(records)) = 3
    /\ last.op = "__lt__"
    /\ last.outcome = Return(TRUE)
    /\ SameBlock(last.args[1], last.args[2])

\* C18: a == b on records holds if and only if network, region and network
\* border group are equal and the services are equal as sets, so that records
\* built with the services in another order or with a name repeated are
\* equal.
C18_EqualIffSameFieldsAndServiceSet ==
    last.op = "__eq__" =>
        last.outcome
            = Return(/\ SameBlock(last.args[1], last.args[2])
                     /\ Range(last.args[1].services) = Range(last.args[2].services))

\* C19: a record built with services given as a string holds the one-element
\* sequence of it, and every record built holds its services strictly
\* ascending: sorted, no name repeated.
C19_ServicesSortedAndDeduplicated ==
    /\ \A i \in 1..Len(records) : StrictlyAscendingStrings(records[i].services)
    /\ (/\ last.op \in {"AWSIPv4Prefix", "AWSIPv6Prefix"}
        /\ last.outcome.status = "ok") =>
            /\ last.args[4].type = "str" =>
                   last.outcome.value.services = <<last.args[4].value>>
            /\ last.args[4].type = "tuple" =>
                   /\ Range(last.outcome.value.services)
                          = Range(last.args[4].value)
                   /\ StrictlyAscendingStrings(last.outcome.value.services)

\* The text is a network in CIDR form: an address and a prefix length of its
\* version, no bit set beyond the prefix length.
ValidCIDR(text) ==
    /\ text.prefixlen \in 0..max_prefixlen(text.version)
    /\ text.ip \in 0..(2 ^ max_prefixlen(text.version) - 1)
    /\ \A bit \in 0..(max_prefixlen(text.version) - text.prefixlen - 1) :
           (text.ip \div 2 ^ bit) % 2 = 0

\* The network has no address bit set beyond its prefix length.
Canonical(network) ==
    /\ network.prefixlen \in 0..max_prefixlen(network.version)
    /\ network.network_address \in 0..(2 ^ max_prefixlen(network.version) - 1)
    /\ network.network_address
           % 2 ^ (max_prefixlen(network.version) - network.prefixlen) = 0

\* C20: every record built has a canonical network, and building a record
\* from a text that is not a network in CIDR form, host bits set included,
\* raises ValueError and gives no record.
C20_CanonicalNetworkOrValueError ==
    /\ \A i \in 1..Len(records) : Canonical(records[i].prefix)
    /\ last.op \in {"AWSIPv4Prefix", "AWSIPv6Prefix"} =>
           /\ last.outcome.status = "ok" => Canonical(last.outcome.value.prefix)
           /\ (last.args[1].type = "str" /\ ~ ValidCIDR(last.args[1])) =>
                  last.outcome.status = "ValueError"

\* A constructor call that raised ValueError for a text whose address and
\* prefix length are in range and whose host bits are set.
C20_Witness ==
    /\ last.op = "AWSIPv4Prefix"
    /\ last.outcome.status = "ValueError"
    /\ last.args[1].prefixlen \in 0..max_prefixlen(4)
    /\ last.args[1].ip \in 0..(2 ^ max_prefixlen(4) - 1)
    /\ ~ ValidCIDR(last.args[1])
    /\ records # <<>>

\* C23: when ranges[item] returns record r, looking up r's own network and
\* looking up r itself in the same collection both return r.
C23_MatchIsIdempotent ==
    (last.op = "__getitem__" /\ last.outcome.status = "ok") =>
        LET r == last.outcome.value
        IN  /\ __getitem__(ranges, NetworkItem(r.prefix)) = Return(r)
            /\ __getitem__(ranges, [type |-> "AWSIPPrefix", value |-> r])
                   = Return(r)

\* A match through a supernet: the record returned is not the item's own
\* network, and the collection holds a shorter prefix containing it too.
C23_Witness ==
    /\ last.op = "__getitem__"
    /\ last.outcome.status = "ok"
    /\ last.outcome.value.prefix # OwnNetwork(last.args[1])
    /\ \E s \in Containing(ranges, last.outcome.value.prefix) :
           s.prefix.prefixlen < last.outcome.value.prefix.prefixlen

\* C26: iterating a collection yields its IPv4 sequence followed by its
\* IPv6 sequence, each stored record once, len(collection) items in all,
\* ascending under the record order; len(collection) is the sum of the
\* lengths of the two sequences.
C26_IterationSortedAndComplete ==
    /\ last.op = "__iter__" =>
           LET t == last.outcome.value.value
               n4 == Len(ranges.ipv4_prefixes)
           IN  /\ SubSeq(t, 1, n4) = ranges.ipv4_prefixes
               /\ SubSeq(t, n4 + 1, Len(t)) = ranges.ipv6_prefixes
               /\ \A s \in Stored(ranges) :
                      Cardinality({i \in 1..Len(t) : t[i] = s}) = 1
               /\ Len(t) = __len__(ranges)
               /\ StrictlyAscending(t)
    /\ last.op = "__len__" =>
           last.outcome.value.value
               = Len(ranges.ipv4_prefixes) + Len(ranges.ipv6_prefixes)

\* An iteration over records of both versions, the IPv6 network of the
\* smaller address.
C26_Witness ==
    /\ last.op = "__iter__"
    /\ Len(ranges.ipv4_prefixes) >= 2
    /\ Len(ranges.ipv6_prefixes) >= 1
    /\ ranges.ipv6_prefixes[1].prefix.network_address
           < ranges.ipv4_prefixes[2].prefix.network_address

\* Every network of both versions.
AllNetworks ==
    {Net(4, b, l) : <<b, l>> \in {<<b, l>> \in (0..(2 ^ Bits4 - 1)) \X (0..Bits4) :
                                     b < 2 ^ l}}
    \cup {Net(6, b, l) : <<b, l>> \in {<<b, l>> \in (0..(2 ^ Bits6 - 1)) \X (0..Bits6) :
                                          b < 2 ^ l}}

\* The linear scan: the stored records of the network's version whose
\* network address and prefix length are the network's.
Scan(self, network) ==
    {s \in Stored(self) :
        /\ s.prefix.version = network.version
        /\ s.prefix.network_address = network.network_address
        /\ s.prefix.prefixlen = network.prefixlen}

\* C28: on every collection built by the constructor or by filter, and for
\* every network, _get_prefix returns the stored record of that version,
\* network address and prefix length when there is one, and None otherwise.
C28_GetPrefixAgreesWithScan ==
    (last.op \in {"AWSIPPrefixes", "filter"} /\ last.outcome.status = "ok") =>
        \A network \in AllNetworks :
            LET found == _get_prefix(last.outcome.value, network)
                scan == Scan(last.outcome.value, network)
            IN  IF scan = {} THEN found = PyNone ELSE scan = {found}

\* A collection built with three records of one network address and three
\* prefix lengths.
C28_Witness ==
    /\ last.op = "AWSIPPrefixes"
    /\ last.outcome.status = "ok"
    /\ Len(last.outcome.value.ipv4_prefixes) = 3
    /\ \A i \in 1..3 :
           last.outcome.value.ipv4_prefixes[i].prefix.network_address = 0

\* The same sequences of records.
SameRecords(a, b) ==
    /\ a.ipv4_prefixes = b.ipv4_prefixes
    /\ a.ipv6_prefixes = b.ipv6_prefixes

\* filter called on the result of the last filter call, with its arguments.
FilterAgain ==
    filter(last.outcome.value, last.args[1], last.args[2], last.args[3],
           last.args[4]).outcome

\* C29 as claimed: when filter(args) returns a collection, filter(args) on
\* that collection returns a collection too, with the same records.
C29_FilterIsIdempotent ==
    (last.op = "filter" /\ last.outcome.status = "ok") =>
        /\ FilterAgain.status = "ok"
        /\ SameRecords(FilterAgain.value, last.outcome.value)

\* C29 as amended: when filter(args) returns a collection, filter(args) on
\* that collection raises ValueError if a provided region, network border
\* group or service is not observed any more in it, and otherwise returns a
\* collection with the same records.
C29_FilterIsIdempotentWhereValid ==
    (last.op = "filter" /\ last.outcome.status = "ok") =>
        IF /\ Provided(last.args[1]) \subseteq ObservedRegions(last.outcome.value)
           /\ Provided(last.args[2])
                  \subseteq ObservedNetworkBorderGroups(last.outcome.value)
           /\ Provided(last.args[3]) \subseteq ObservedServices(last.outcome.value)
        THEN /\ FilterAgain.status = "ok"
             /\ SameRecords(FilterAgain.value, last.outcome.value)
        ELSE FilterAgain.status = "ValueError"

\* A filter that dropped some records and kept others, and whose arguments
\* are all still observed in what it kept.
C29_Witness ==
    /\ last.op = "filter"
    /\ last.outcome.status = "ok"
    /\ \A k \in 1..3 : last.args[k] # PyNone
    /\ __len__(last.outcome.value) >= 1
    /\ __len__(last.outcome.value) < __len__(ranges)
    /\ Provided(last.args[1]) \subseteq ObservedRegions(last.outcome.value)
    /\ Provided(last.args[2])
           \subseteq ObservedNetworkBorderGroups(last.outcome.value)
    /\ Provided(last.args[3]) \subseteq ObservedServices(last.outcome.value)

\* C30: an empty iterable given for a filter parameter has the outcome of
\* the call with that parameter unset, and filter(regions=[]) alone returns
\* the records of the source.
C30_EmptyIterableMeansUnset ==
    last.op = "filter" =>
        /\ \A k \in 1..4 :
               last.args[k] \in {PyNone, PyIter({})} =>
                   LET unset == [last.args EXCEPT ![k] = PyNone]
                       empty == [last.args EXCEPT ![k] = PyIter({})]
                   IN  /\ filter(ranges, unset[1], unset[2], unset[3],
                                 unset[4]).outcome = last.outcome
                       /\ filter(ranges, empty[1], empty[2], empty[3],
                                 empty[4]).outcome = last.outcome
        /\ last.args = <<PyIter({}), PyNone, PyNone, PyNone>> =>
               /\ last.outcome.status = "ok"
               /\ SameRecords(last.outcome.value, ranges)

\* filter(regions=[], services=..., versions=...) that returned some of the
\* records of a collection and dropped others.
C30_Witness ==
    /\ last.op = "filter"
    /\ last.args[1] = PyIter({})
    /\ last.outcome.status = "ok"
    /\ __len__(last.outcome.value) >= 1
    /\ __len__(last.outcome.value) < __len__(ranges)

\* C21: `item in record` is True exactly when the item has the record's IP
\* version and the item's network lies within the record's network; for an
\* item of the other version it is False; it never raises.
C21_RecordContainsIffSubnet ==
    last.op = "__contains__" =>
        LET self == last.args[1]
            item == last.args[2]
        IN  last.outcome
                = Return(/\ ItemVersion(item) = self.prefix.version
                         /\ NetworkContains(self.prefix, OwnNetwork(item)))

\* An interface with host bits set is found inside a record's network that
\* is not /0.
C21_Witness ==
    /\ last.op = "__contains__"
    /\ last.outcome = Return(TRUE)
    /\ last.args[1].prefix.prefixlen >= 1
    /\ OwnNetwork(last.args[2]).network_address # last.args[2].ip

\* C22: record == other and record < other treat an operand that is not a
\* record alike: a network is compared with the record's network alone, a
\* str is parsed as a network (ValueError if it is not one) and compared the
\* same way, and an operand of any other type raises TypeError.
C22_OneDispatchForEqAndLt ==
    last.op \in {"__eq__", "__lt__"} =>
        LET self == last.args[1]
            other == last.args[2]
            Compared(network) ==
                \/ self.prefix.version # network.version /\ last.op = "__lt__"
                \/ last.outcome
                       = Return(IF last.op = "__eq__" THEN self.prefix = network
                                ELSE network_lt(self.prefix, network))
        IN  IF other.type \in {"IPv4Network", "IPv6Network"}
            THEN Compared(other.value)
            ELSE IF other.type = "str"
            THEN IF ValidCIDR(other) THEN Compared(ip_network(other))
                 ELSE last.outcome.status = "ValueError"
            ELSE last.outcome.status = "TypeError"

\* The status code of a response as the claim reads it: `status`, else
\* `code`, else `getstatus()`.
StatusCode(response) ==
    IF "status" \in response.has THEN response.status
    ELSE IF "code" \in response.has THEN response.code
    ELSE response.getstatus

HasStatusCode(response) == response.has \cap {"status", "code", "getstatus"} # {}

HasURL(response) == response.has \cap {"url", "geturl"} # {}

\* What the claim says of a response with a status code: HTTPError, client
\* error for 400..499 and server error for 500..599, and a normal return for
\* every other code.
ClassifiedByStatus(response, outcome) ==
    LET code == StatusCode(response)
    IN  IF code \in 400..499
        THEN /\ outcome.status = "HTTPError"
             /\ outcome.message = "Client error for URL:"
             /\ outcome.http_status = code
        ELSE IF code \in 500..599
        THEN /\ outcome.status = "HTTPError"
             /\ outcome.message = "Server error for URL:"
             /\ outcome.http_status = code
        ELSE outcome = Return(PyNone)

\* C27: raise_for_status raises HTTPError exactly when the response's status
\* code (read from `status`, else `code`, else `getstatus()`) is in 400..599,
\* a client error for 400..499 and a server error for 500..599, and returns
\* normally for every other status code.
C27_HTTPErrorIff4xxOr5xx ==
    (last.op = "raise_for_status" /\ HasStatusCode(last.args[1])) =>
        ClassifiedByStatus(last.args[1], last.outcome)

\* C27 (amended): the above holds of a response that carries a url (`url`
\* or `geturl()`); a response with a status code and no url raises
\* ValueError whatever its status code.
C27_HTTPErrorIff4xxOr5xxGivenURL ==
    (last.op = "raise_for_status" /\ HasStatusCode(last.args[1])) =>
        IF HasURL(last.args[1])
        THEN ClassifiedByStatus(last.args[1], last.outcome)
        ELSE last.outcome = Raise("ValueError")

\* A response without `status` whose `code` is a 5xx code and differs from
\* what getstatus() gives raises the server error.
C27_Witness ==
    /\ last.op = "raise_for_status"
    /\ last.args[1].has = {"code", "getstatus", "geturl"}
    /\ last.args[1].code = 500
    /\ last.args[1].getstatus = 200
    /\ last.outcome.status = "HTTPError"
    /\ last.outcome.message = "Server error for URL:"

\* The cache fields of an instance, in the order regions,
\* network_border_groups, services.
Caches(self) == <<self._regions, self._network_border_groups, self._services>>

\* The values the three derived sets are to hold.
ObservedSets(self) ==
    << PyFrozenSet(ObservedRegions(self)),
       PyFrozenSet(ObservedNetworkBorderGroups(self)),
       PyFrozenSet(ObservedServices(self)) >>

RunAlone(self, call) ==
    IF call.op = "__getitem__" THEN __getitem__(self, call.item)
    ELSE IF call.op = "__contains__" THEN __contains__(self, call.item)
    ELSE IF call.op = "get" THEN get(self, call.item, Default)
    ELSE IF call.op = "get_prefix_and_supernets"
    THEN get_prefix_and_supernets(self, call.item, PyNone)
    ELSE IF call.op = "regions" THEN Return(regions(self)._regions)
    ELSE IF call.op = "network_border_groups"
    THEN Return(network_border_groups(self)._network_border_groups)
    ELSE IF call.op = "services" THEN Return(services(self)._services)
    ELSE filter(self, call.args[1], call.args[2], call.args[3], call.args[4]).outcome

\* The sequences and the metadata of a collection.
SequencesAndMetadata(self) ==
    <<self.ipv4_prefixes, self.ipv6_prefixes, self.sync_token,
      self.create_date, self.md5>>

\* C25: under any interleaving of the steps of several readers of one
\* collection (lookups, reads of the derived sets, filters) every call that
\* ends has the outcome it has when run alone on the collection, and the
\* IPv4 and IPv6 sequences and the metadata of the collection never change.
C25_ConcurrentReadersAreSafe ==
    /\ [](\A i \in Readers :
             readers[i].pc = "done" =>
                 readers[i].outcome = RunAlone(ranges, ReaderCalls[readers[i].call]))
    /\ [][SequencesAndMetadata(ranges') = SequencesAndMetadata(ranges)]_vars

\* Reader 1 ended a filter that returned a collection while reader 2, which
\* found _regions None before reader 1 filled it, is about to compute and
\* assign it again.
C25_Witness ==
    /\ readers[1].pc = "done"
    /\ ReaderCalls[readers[1].call].op = "filter"
    /\ readers[1].outcome.status = "ok"
    /\ readers[2].pc = "assign"
    /\ readers[2].field = 1
    /\ ranges._regions # PyNone

====
